---- MODULE Spec2Model ----
(***************************************************************************)
(* Model of the day-3 deep-research chat route (POST of                    *)
(* 02-day-3-app/src/app/api/chat/route.ts) and of the deep-search module   *)
(* (streamFromDeepSearch / askDeepSearch), with the two tools searchWeb    *)
(* and scrapePages.                                                        *)
(*                                                                         *)
(* Spec       : one request through POST: admission, the data stream, the  *)
(*              streamText step loop (ai SDK v4 semantics, maxSteps from   *)
(*              the route), tool executions, onFinish persistence, abort.  *)
(* SpecScrape : one scrapePages.execute call: the crawl batch settles in   *)
(*              any order, then execute maps the batch to the tool output. *)
(***************************************************************************)
EXTENDS Integers, Sequences, FiniteSets, TLC

VARIABLES
    \* ---- the request (inputs of POST) ----
    entry,          \* "POST" (chat route) or "askDeepSearch" (deep-search module)
    session,        \* "none" or the user id of auth()
    hasMessages,    \* body.messages.length is not 0
    chatId,         \* body.chatId
    isNewChat,      \* body.isNewChat
    storedChat,     \* owner of the stored chat with id chatId: "none" or a user id
    \* ---- the handler ----
    pc,             \* position of POST
    status,         \* HTTP status of the response, 0 while none is returned
    stream,         \* chunks written to the data stream, in order
    closed,         \* the data stream has been closed
    upserts,        \* the upsertChat calls made, in order
    \* ---- the streamText step loop ----
    driver,         \* "idle" | "model" | "tools" | "done" | "error"
    modelCalls,     \* number of model invocations of this request
    calls,          \* tool invocations of the current step and their results, in request order
    finished,       \* onFinish has run
    aborted,        \* the request's cancellation signal has fired
    \* ---- one scrapePages.execute call ----
    urls,           \* the urls argument
    fetches,        \* per index: <<>> while in flight, else <<outcome>>
    settleOrder,    \* indexes in the order their fetches settled
    output,         \* <<>> until execute returns, then <<its return value>>
    \* ---- one searchWeb.execute call ----
    route,          \* whose searchWeb runs: "day3", "deepSearch" or "day1"
    serperOrganic,  \* results.organic of the provider's response
    searchOutput,   \* <<>> until execute returns, then <<its return value>>
    \* ---- ChatPage (day-1 chat.tsx) and one handleSubmit run ----
    messages,       \* the messages state of useChat
    input,          \* the input state
    isLoading,      \* the isLoading state
    hpc,            \* position of handleSubmit
    shown,          \* messages as captured by the handleSubmit closure
    userMessage,    \* <<>> or <<the userMessage it built>>
    assistantMessage, \* <<>> or <<the assistantMessage it built and mutates>>
    body,           \* the chunks of bytes the response body delivers, in order
    readPos         \* number of chunks read so far

reqVars    == <<entry, session, hasMessages, chatId, isNewChat, storedChat>>
postVars   == <<pc, status, stream, closed, upserts>>
loopVars   == <<driver, modelCalls, calls, finished, aborted>>
scrapeVars == <<urls, fetches, settleOrder, output>>
searchVars == <<route, serperOrganic, searchOutput>>
chatVars   == <<messages, input, isLoading, hpc, shown, userMessage,
                assistantMessage, body, readPos>>
vars       == <<reqVars, postVars, loopVars, scrapeVars, searchVars, chatVars>>

----------------------------------------------------------------------------
(* Bounds of the model *)

MaxUrls     == 3    \* longest urls argument of a scrapePages call (SpecScrape)
MaxCalls    == 2    \* most tool invocations the model requests in one step
MaxText     == 1    \* most text chunks the model streams in one request
MaxOrganic  == 2    \* most organic results in a provider response (SpecSearch)
MaxChunks   == 2    \* most chunks a response body delivers (SpecChat)

Urls    == {"u1", "u2"}
ChatIds == {"c1", "c2"}

RECURSIVE SeqsUpTo(_, _)
SeqsUpTo(S, n) ==
    IF n = 0 THEN {<<>>}
    ELSE LET shorter == SeqsUpTo(S, n - 1)
         IN  shorter \cup {Append(s, x) : s \in {t \in shorter : Len(t) = n - 1}, x \in S}

----------------------------------------------------------------------------
(* JavaScript values *)

undefined == <<"undefined">>

\* obj.f, which is undefined when the object has no such property
Field(obj, f) == IF f \in DOMAIN obj THEN obj[f] ELSE undefined

----------------------------------------------------------------------------
(* The crawl engine, ~/scraper, as its design describes it (section 4.3) *)

ExtractedText(url) == <<"text", url>>
ErrorInfo(url)     == <<"error", url>>

\* one settled fetch: exactly one of data / error is present
FetchOutcome(url, ok) ==
    IF ok THEN [success |-> TRUE,  data  |-> ExtractedText(url)]
          ELSE [success |-> FALSE, error |-> ErrorInfo(url)]

\* bulkCrawlWebsites: outcomes in input order, success the conjunction of all
bulkCrawlWebsites(us, settled) ==
    LET results == [i \in 1..Len(us) |-> [url |-> us[i], result |-> settled[i][1]]]
        allOk   == \A i \in 1..Len(us) : results[i].result.success
        failed  == SelectSeq(results, LAMBDA r : ~r.result.success)
    IN  IF allOk
        THEN [success |-> TRUE, results |-> results]
        ELSE [success |-> FALSE, results |-> results,
              error |-> <<"Failed to crawl", [i \in 1..Len(failed) |-> failed[i].url]>>]

----------------------------------------------------------------------------
(* scrapePages.execute, route.ts 151-172 and deep-search 79-100 *)

\* mutant: the failed branch copies data as the successful branch does
FailedBranchEntryCopiesData(r) ==
    [url     |-> r.url,
     success |-> r.result.success,
     data    |-> Field(r.result, "data")]

\* the entry of a batch that is not fully successful (lines 157-161)
FailedBranchEntry(r) ==
    [url     |-> r.url,
     success |-> r.result.success,
     data    |-> IF r.result.success THEN Field(r.result, "data")
                                     ELSE Field(r.result, "error")]

\* the entry of a fully successful batch (lines 166-170)
SuccessBranchEntry(r) ==
    [url     |-> r.url,
     success |-> r.result.success,
     data    |-> Field(r.result, "data")]

\* mutant: only the pages that were crawled successfully are returned
scrapePagesExecuteDropsFailed(result) ==
    IF ~result.success
    THEN LET kept == SelectSeq(result.results, LAMBDA r : r.result.success)
         IN  [error   |-> result.error,
              results |-> [i \in 1..Len(kept) |-> FailedBranchEntry(kept[i])]]
    ELSE [results |-> [i \in 1..Len(result.results) |->
                          SuccessBranchEntry(result.results[i])]]

\* mutant: the error of the batch is returned whether or not it succeeded
scrapePagesExecuteAlwaysError(result) ==
    [error   |-> Field(result, "error"),
     results |-> [i \in 1..Len(result.results) |->
                     FailedBranchEntry(result.results[i])]]

scrapePagesExecute(result) ==
    IF ~result.success
    THEN [error   |-> result.error,
          results |-> [i \in 1..Len(result.results) |->
                          FailedBranchEntry(result.results[i])]]
    ELSE [results |-> [i \in 1..Len(result.results) |->
                          SuccessBranchEntry(result.results[i])]]

----------------------------------------------------------------------------
(* SpecScrape: one scrapePages.execute call *)

IdleRequest ==
    /\ entry = "POST"
    /\ session = "none" /\ hasMessages = FALSE /\ chatId = "c1" /\ isNewChat = FALSE
    /\ storedChat = "none"
    /\ pc = "start" /\ status = 0 /\ stream = <<>> /\ closed = FALSE
    /\ upserts = <<>>
    /\ driver = "idle" /\ modelCalls = 0 /\ calls = <<>>
    /\ finished = FALSE /\ aborted = FALSE

\* no searchWeb.execute call is under way on its own
IdleSearch == route = "day3" /\ serperOrganic = <<>> /\ searchOutput = <<>>

\* no ChatPage is mounted
IdleChat ==
    /\ messages = <<>> /\ input = <<>> /\ isLoading = FALSE /\ hpc = "idle"
    /\ shown = <<>> /\ userMessage = <<>> /\ assistantMessage = <<>>
    /\ body = <<>> /\ readPos = 0

ScrapeInit ==
    /\ IdleRequest
    /\ IdleSearch
    /\ IdleChat
    /\ urls \in SeqsUpTo(Urls, MaxUrls)
    /\ fetches = [i \in 1..Len(urls) |-> <<>>]
    /\ settleOrder = <<>>
    /\ output = <<>>

\* the fetch of urls[i] settles, successfully or not
FetchSettles(i, ok) ==
    /\ output = <<>>
    /\ fetches[i] = <<>>
    /\ fetches' = [fetches EXCEPT ![i] = <<FetchOutcome(urls[i], ok)>>]
    /\ settleOrder' = Append(settleOrder, i)
    /\ UNCHANGED <<urls, output, reqVars, postVars, loopVars, searchVars,
                   chatVars>>

\* every fetch has settled: bulkCrawlWebsites resolves and execute returns
ScrapeReturns ==
    /\ output = <<>>
    /\ \A i \in 1..Len(urls) : fetches[i] # <<>>
    /\ output' = <<scrapePagesExecute(bulkCrawlWebsites(urls, fetches))>>
    /\ UNCHANGED <<urls, fetches, settleOrder, reqVars, postVars, loopVars, searchVars,
                   chatVars>>

ScrapeNext ==
    \/ \E i \in 1..Len(urls), ok \in BOOLEAN : FetchSettles(i, ok)
    \/ ScrapeReturns

SpecScrape == ScrapeInit /\ [][ScrapeNext]_vars

----------------------------------------------------------------------------
(* Collaborators of the route, ~/serper and ~/server/db/queries (4.2, 6) *)

\* searchSerper's response inside the step loop: an organic result carrying
\* more than the tool returns
OrganicSamples ==
    { <<[title |-> "t1", link |-> "u1", snippet |-> "s1", date |-> "d1",
         position |-> 1]>> }

\* upsertChat({userId, chatId, title, messages}) as the call it receives
upsertChat(userId, id, msgs) ==
    [userId |-> userId, chatId |-> id, messages |-> msgs]

----------------------------------------------------------------------------
(* The options the route hands to streamText and createDataStreamResponse *)

\* mutant: one step more than the route allows
maxStepsOffByOne == 10 + 1

maxSteps == 10              \* route.ts 93
maxStepsDeepSearch == 10    \* deep-search 27

MaxStepsOf(e) == IF e = "POST" THEN maxSteps ELSE maxStepsDeepSearch

RequestSignal == <<"signal", "request">>

\* the options object of the streamText call: it names no abortSignal
streamTextOptions(e) == [maxSteps |-> MaxStepsOf(e)]

\* the abortSignal a tool's execute receives is the one given to streamText
ToolAbortSignal(e) == Field(streamTextOptions(e), "abortSignal")

\* mutant: the handler returns the error's own text
onErrorLeaksCause == "model request failed: 500"

\* onError of createDataStreamResponse (route.ts 201-204)
onError == "Oops, an error occurred!"

\* mutant: the event is written whether or not the chat is new
NewChatDataUnconditional(isNew, id) ==
    <<[type |-> "data", value |-> [type |-> "NEW_CHAT_CREATED", chatId |-> id]]>>

\* dataStream.writeData at the head of execute (route.ts 83-88)
NewChatData(isNew, id) ==
    IF isNew THEN <<[type |-> "data",
                     value |-> [type |-> "NEW_CHAT_CREATED", chatId |-> id]]>>
             ELSE <<>>

TextChunk      == [type |-> "text"]
ErrorChunk(m)  == [type |-> "error", value |-> m]

CountType(s, t) == Cardinality({i \in 1..Len(s) : s[i].type = t})

----------------------------------------------------------------------------
(* The tools (route.ts 125-173, deep-search 53-101) *)

\* mutant: the provider's results are returned as they came
searchWebExecuteReturnsRaw(organic) == organic

\* searchWeb.execute's return value (route.ts 135-140, deep-search 63-68)
searchWebExecute(organic) ==
    [i \in 1..Len(organic) |-> [title   |-> organic[i].title,
                                link    |-> organic[i].link,
                                snippet |-> organic[i].snippet,
                                date    |-> Field(organic[i], "date")]]

\* searchWeb.execute's return value in the day-1 route (route.ts 64-68)
searchWebExecuteDay1(organic) ==
    [i \in 1..Len(organic) |-> [title   |-> organic[i].title,
                                link    |-> organic[i].link,
                                snippet |-> organic[i].snippet]]

\* the signal each execute hands to its collaborator:
\* searchSerper(..., abortSignal) but bulkCrawlWebsites({ urls })
SignalPassedOn(tool, abortSignal) ==
    IF tool = "searchWeb" THEN abortSignal ELSE undefined

\* the urls arguments the model gives scrapePages inside the step loop
LoopUrlArgs == {<<"u1">>}

ToolRequests ==
    {[tool |-> "searchWeb", urls |-> <<>>]}
    \cup {[tool |-> "scrapePages", urls |-> us] : us \in LoopUrlArgs}

\* a tool invocation as execute starts it
Invocation(req, abortSignal) ==
    [tool    |-> req.tool,
     urls    |-> req.urls,
     signal  |-> SignalPassedOn(req.tool, abortSignal),
     state   |-> "running",
     payload |-> <<>>]

Settled(c) == c.state # "running"

----------------------------------------------------------------------------
(* Spec: one request *)

Init ==
    /\ entry \in {"POST", "askDeepSearch"}
    /\ session \in {"none", "alice"}
    /\ hasMessages \in BOOLEAN
    /\ chatId \in ChatIds
    /\ isNewChat \in BOOLEAN
    /\ storedChat \in {"none", "alice", "bob"}
    /\ isNewChat => storedChat = "none"     \* a new chat's id is fresh
    /\ entry = "askDeepSearch" =>
          /\ hasMessages
          /\ session = "none" /\ chatId = "c1" /\ isNewChat = FALSE
          /\ storedChat = "none"
    /\ pc = "start" /\ status = 0 /\ stream = <<>> /\ closed = FALSE
    /\ upserts = <<>>
    /\ driver = "idle" /\ modelCalls = 0 /\ calls = <<>>
    /\ finished = FALSE /\ aborted = FALSE
    /\ urls = <<>> /\ fetches = <<>> /\ settleOrder = <<>> /\ output = <<>>
    /\ IdleSearch
    /\ IdleChat

\* route.ts 26-30
Unauthorized ==
    /\ entry = "POST" /\ pc = "start"
    /\ session = "none"
    /\ status' = 401 /\ pc' = "returned"
    /\ UNCHANGED <<stream, closed, upserts, reqVars, loopVars, scrapeVars, searchVars,
                   chatVars>>

\* route.ts 46-48
NoMessages ==
    /\ entry = "POST" /\ pc = "start"
    /\ session # "none" /\ ~hasMessages
    /\ status' = 400 /\ pc' = "returned"
    /\ UNCHANGED <<stream, closed, upserts, reqVars, loopVars, scrapeVars, searchVars,
                   chatVars>>

\* route.ts 51-57
CreateNewChat ==
    /\ entry = "POST" /\ pc = "start"
    /\ session # "none" /\ hasMessages /\ isNewChat
    /\ upserts' = Append(upserts, upsertChat(session, chatId, "request"))
    /\ pc' = "admitted"
    /\ UNCHANGED <<status, stream, closed, reqVars, loopVars, scrapeVars, searchVars,
                   chatVars>>

\* mutant: the chat is looked up but its owner is not compared
VerifyChatIgnoresOwner ==
    /\ entry = "POST" /\ pc = "start"
    /\ session # "none" /\ hasMessages /\ ~isNewChat
    /\ IF storedChat = "none"
       THEN status' = 404 /\ pc' = "returned"
       ELSE status' = status /\ pc' = "admitted"
    /\ UNCHANGED <<stream, closed, upserts, reqVars, loopVars, scrapeVars, searchVars,
                   chatVars>>

\* route.ts 58-66
VerifyChat ==
    /\ entry = "POST" /\ pc = "start"
    /\ session # "none" /\ hasMessages /\ ~isNewChat
    /\ IF storedChat = "none" \/ storedChat # session
       THEN status' = 404 /\ pc' = "returned"
       ELSE status' = status /\ pc' = "admitted"
    /\ UNCHANGED <<stream, closed, upserts, reqVars, loopVars, scrapeVars, searchVars,
                   chatVars>>

\* route.ts 80-199: the response is returned, execute writes the sideband
\* event, streamText starts and makes its first model invocation
Execute ==
    /\ entry = "POST" /\ pc = "admitted"
    /\ status' = 200 /\ pc' = "streaming"
    /\ stream' = NewChatData(isNewChat, chatId)
    /\ driver' = "model" /\ modelCalls' = 1
    /\ UNCHANGED <<closed, upserts, calls, finished, aborted,
                   reqVars, scrapeVars, searchVars,
                   chatVars>>

\* deep-search 107-118: streamFromDeepSearch, then consumeStream
AskDeepSearch ==
    /\ entry = "askDeepSearch" /\ pc = "start"
    /\ pc' = "streaming"
    /\ driver' = "model" /\ modelCalls' = 1
    /\ UNCHANGED <<status, stream, closed, upserts, calls, finished,
                   aborted, reqVars, scrapeVars, searchVars,
                   chatVars>>

\* the model streams a text delta
ModelText ==
    /\ driver = "model"
    /\ CountType(stream, "text") < MaxText
    /\ stream' = Append(stream, TextChunk)
    /\ UNCHANGED <<pc, status, closed, upserts, reqVars, loopVars, scrapeVars, searchVars,
                   chatVars>>

\* the model's response ends without tool calls: the loop is done
ModelFinal ==
    /\ driver = "model"
    /\ driver' = "done"
    /\ UNCHANGED <<modelCalls, calls, finished, aborted,
                   reqVars, postVars, scrapeVars, searchVars,
                   chatVars>>

\* the model's response requests tools: every execute starts
ModelToolCalls(reqs) ==
    /\ driver = "model"
    /\ driver' = "tools"
    /\ calls' = [i \in 1..Len(reqs) |-> Invocation(reqs[i], ToolAbortSignal(entry))]
    /\ UNCHANGED <<modelCalls, finished, aborted,
                   reqVars, postVars, scrapeVars, searchVars,
                   chatVars>>

\* the completion call itself fails: the result stream fails, and the data
\* stream of the route writes onError's message
ModelFails ==
    /\ driver = "model"
    /\ driver' = "error"
    /\ stream' = IF entry = "POST" THEN Append(stream, ErrorChunk(onError)) ELSE stream
    /\ UNCHANGED <<pc, status, closed, upserts, modelCalls, calls,
                   finished, aborted, reqVars, scrapeVars, searchVars,
                   chatVars>>

\* searchWeb.execute returns (route.ts 130-140)
SearchReturns(i, organic) ==
    /\ driver = "tools"
    /\ calls[i].tool = "searchWeb" /\ calls[i].state = "running"
    /\ calls' = [calls EXCEPT ![i].state = "returned",
                              ![i].payload = <<searchWebExecute(organic)>>]
    /\ UNCHANGED <<driver, modelCalls, finished, aborted,
                   reqVars, postVars, scrapeVars, searchVars,
                   chatVars>>

\* searchSerper throws inside searchWeb.execute, which has no handler: the
\* promise of execute rejects, streamText reports it on the stream as an error
\* part and records no result for the call
SearchThrows(i) ==
    /\ driver = "tools"
    /\ calls[i].tool = "searchWeb" /\ calls[i].state = "running"
    /\ calls' = [calls EXCEPT ![i].state = "threw"]
    /\ stream' = IF entry = "POST" THEN Append(stream, ErrorChunk(onError)) ELSE stream
    /\ UNCHANGED <<pc, status, closed, upserts, driver, modelCalls,
                   finished, aborted, reqVars, scrapeVars, searchVars,
                   chatVars>>

\* scrapePages.execute returns (route.ts 151-172); oks are the fetch outcomes
ScrapeToolReturns(i, oks) ==
    /\ driver = "tools"
    /\ calls[i].tool = "scrapePages" /\ calls[i].state = "running"
    /\ LET us      == calls[i].urls
           settled == [k \in 1..Len(us) |-> <<FetchOutcome(us[k], oks[k])>>]
       IN  calls' = [calls EXCEPT
                       ![i].state = "returned",
                       ![i].payload =
                           <<scrapePagesExecute(bulkCrawlWebsites(us, settled))>>]
    /\ UNCHANGED <<driver, modelCalls, finished, aborted,
                   reqVars, postVars, scrapeVars, searchVars,
                   chatVars>>

NumReturned == Cardinality({i \in 1..Len(calls) : calls[i].state = "returned"})

\* every tool invocation of the step has settled: the results recorded in
\* calls are appended to the history in request order, and the model is
\* invoked again when every call has a result and the step budget allows it
StepFinish ==
    /\ driver = "tools"
    /\ \A i \in 1..Len(calls) : Settled(calls[i])
    /\ IF modelCalls < MaxStepsOf(entry) /\ NumReturned = Len(calls)
       THEN driver' = "model" /\ modelCalls' = modelCalls + 1 /\ calls' = <<>>
       ELSE driver' = "done" /\ UNCHANGED <<modelCalls, calls>>
    /\ UNCHANGED <<finished, aborted, reqVars, postVars, scrapeVars, searchVars,
                   chatVars>>

\* mutant: the chat is saved at the end of every step (onStepFinish)
OnStepFinishSaves ==
    /\ driver = "tools" /\ ~finished
    /\ \A i \in 1..Len(calls) : calls[i].state # "running"
    /\ Len(upserts) < 2
    /\ upserts' = IF entry = "POST" /\ hasMessages
                  THEN Append(upserts, [userId |-> session, chatId |-> chatId,
                                        messages |-> "request+response"])
                  ELSE upserts
    /\ UNCHANGED <<pc, status, stream, closed, reqVars, loopVars, scrapeVars, searchVars,
                   chatVars>>

\* mutant: the chat is saved when the stream ends, however it ends
OnFinishAlsoOnError ==
    /\ driver \in {"done", "error"} /\ ~finished
    /\ finished' = TRUE
    /\ upserts' = IF entry = "POST" /\ hasMessages
                  THEN Append(upserts, [userId |-> session, chatId |-> chatId,
                                        messages |-> "request+response"])
                  ELSE upserts
    /\ UNCHANGED <<pc, status, stream, closed, driver, modelCalls, calls,
                   aborted, reqVars, scrapeVars, searchVars,
                   chatVars>>

\* onFinish (route.ts 175-196; a stub in askDeepSearch, deep-search 110)
OnFinish ==
    /\ driver = "done" /\ ~finished
    /\ finished' = TRUE
    /\ upserts' = IF entry = "POST" /\ hasMessages
                  THEN Append(upserts,
                         upsertChat(session, chatId, "request+response"))
                  ELSE upserts
    /\ UNCHANGED <<pc, status, stream, closed, driver, modelCalls, calls,
                   aborted, reqVars, scrapeVars, searchVars,
                   chatVars>>

\* the merged result stream has ended or failed: the data stream is closed
CloseStream ==
    /\ entry = "POST" /\ pc = "streaming" /\ ~closed
    /\ finished \/ driver = "error"
    /\ closed' = TRUE
    /\ UNCHANGED <<pc, status, stream, upserts, reqVars, loopVars, scrapeVars, searchVars,
                   chatVars>>

\* the caller of the route cancels the request: every running invocation whose
\* collaborator holds the request's signal is aborted and its execute rejects
Abort ==
    /\ entry = "POST" /\ pc = "streaming" /\ ~aborted /\ ~closed
    /\ aborted' = TRUE
    /\ calls' = [i \in 1..Len(calls) |->
                   IF calls[i].state = "running" /\ calls[i].signal = RequestSignal
                   THEN [calls[i] EXCEPT !.state = "threw"]
                   ELSE calls[i]]
    /\ UNCHANGED <<driver, modelCalls, finished, reqVars, postVars,
                   scrapeVars, searchVars,
                   chatVars>>

Next ==
    \/ Unauthorized
    \/ NoMessages
    \/ CreateNewChat
    \/ VerifyChat
    \/ Execute
    \/ AskDeepSearch
    \/ ModelText
    \/ ModelFinal
    \/ \E reqs \in SeqsUpTo(ToolRequests, MaxCalls) \ {<<>>} : ModelToolCalls(reqs)
    \/ ModelFails
    \/ \E i \in 1..Len(calls), organic \in OrganicSamples : SearchReturns(i, organic)
    \/ \E i \in 1..Len(calls) : SearchThrows(i)
    \/ \E i \in 1..Len(calls), oks \in [1..1 -> BOOLEAN] :
          ScrapeToolReturns(i, oks)
    \/ StepFinish
    \/ OnFinish
    \/ CloseStream
    \/ Abort

Spec == Init /\ [][Next]_vars

\* the event loop runs every continuation that is ready
FairSpec == Spec /\ WF_vars(Next)

----------------------------------------------------------------------------
(* SpecSearch: one searchWeb.execute call *)

\* organic results as the provider sends them: the fields the tool keeps, an
\* optional date, and fields of the provider's own
RawResults ==
    LET kept == {[title |-> t, link |-> l, snippet |-> sn, position |-> 1] :
                    t \in {"t1", "t2"}, l \in {"u1", "u2"}, sn \in {"s1", "s2"}}
    IN  kept \cup {[title |-> r.title, link |-> r.link, snippet |-> r.snippet,
                    position |-> r.position, date |-> <<"d1">>,
                    sitelinks |-> <<"x">>] : r \in kept}

SearchInit ==
    /\ IdleRequest
    /\ urls = <<>> /\ fetches = <<>> /\ settleOrder = <<>> /\ output = <<>>
    /\ route \in {"day3", "deepSearch", "day1"}
    /\ serperOrganic \in SeqsUpTo(RawResults, MaxOrganic)
    /\ searchOutput = <<>>
    /\ IdleChat

\* searchSerper resolves and execute returns the mapped results
SearchExecuteReturns ==
    /\ searchOutput = <<>>
    /\ searchOutput' = <<IF route = "day1" THEN searchWebExecuteDay1(serperOrganic)
                                           ELSE searchWebExecute(serperOrganic)>>
    /\ UNCHANGED <<route, serperOrganic, reqVars, postVars, loopVars, scrapeVars,
                   chatVars>>

SearchNext == SearchExecuteReturns

SpecSearch == SearchInit /\ [][SearchNext]_vars

----------------------------------------------------------------------------
(* SpecChat: ChatPage.handleSubmit of the day-1 app (chat.tsx 44-110) *)

\* strings are sequences of characters
RECURSIVE TrimStart(_)
TrimStart(str) ==
    IF str # <<>> /\ Head(str) = " " THEN TrimStart(Tail(str)) ELSE str

RECURSIVE TrimEnd(_)
TrimEnd(str) ==
    IF str # <<>> /\ str[Len(str)] = " "
    THEN TrimEnd(SubSeq(str, 1, Len(str) - 1))
    ELSE str

\* String.prototype.trim
Trim(str) == TrimEnd(TrimStart(str))

\* new TextDecoder().decode(value), each call on its own: byte "a" is an ASCII
\* character, "L" the lead byte of a two-byte character and "C" its
\* continuation byte; a byte that is not part of a complete character decodes
\* to the replacement character
RECURSIVE Decode(_)
Decode(bytes) ==
    IF bytes = <<>> THEN <<>>
    ELSE IF bytes[1] = "a" THEN <<"a">> \o Decode(Tail(bytes))
    ELSE IF bytes[1] = "L" /\ Len(bytes) >= 2 /\ bytes[2] = "C"
         THEN <<"e-acute">> \o Decode(Tail(Tail(bytes)))
    ELSE <<"U+FFFD">> \o Decode(Tail(bytes))

\* number.toString()
NumToString(n) == <<"str", n>>

TextMessage(id, role, text) == [id |-> id, role |-> role, text |-> text]

\* [...prev.slice(0, -1), msg] (chat.tsx 98-101)
ReplaceLast(prev, msg) ==
    Append(SubSeq(prev, 1, IF Len(prev) = 0 THEN 0 ELSE Len(prev) - 1), msg)

InputSamples == {<<>>, <<" ">>, <<"h", "i">>, <<" ", "h", "i", " ">>}

ChunkSamples == {<<>>, <<"a">>, <<"L", "C">>, <<"L">>, <<"C">>, <<"a", "L">>}

\* the conversation before the submission: none, or one earlier exchange
PriorSamples ==
    {<<>>,
     <<TextMessage(NumToString(1), "user", <<"q">>),
       TextMessage(NumToString(2), "assistant", <<"a">>)>>}

\* values of Date.now()
Clock == {3, 4}

ChatInit ==
    /\ IdleRequest
    /\ urls = <<>> /\ fetches = <<>> /\ settleOrder = <<>> /\ output = <<>>
    /\ IdleSearch
    /\ messages \in PriorSamples
    /\ input \in InputSamples
    /\ isLoading = FALSE /\ hpc = "idle"
    /\ shown = messages
    /\ userMessage = <<>> /\ assistantMessage = <<>>
    /\ body \in SeqsUpTo(ChunkSamples, MaxChunks)
    /\ readPos = 0

notChat == <<reqVars, postVars, loopVars, scrapeVars, searchVars>>

\* chat.tsx 46: nothing but white space was typed
SubmitBlank ==
    /\ hpc = "idle" /\ ~isLoading
    /\ Trim(input) = <<>>
    /\ hpc' = "returned"
    /\ UNCHANGED <<messages, input, isLoading, shown, userMessage,
                   assistantMessage, body, readPos, notChat>>

\* chat.tsx 48-59: the user message is added and the request sent
Submit(now) ==
    /\ hpc = "idle" /\ ~isLoading
    /\ Trim(input) # <<>>
    /\ LET um == TextMessage(NumToString(now), "user", Trim(input))
       IN  /\ userMessage' = <<um>>
           /\ messages' = Append(messages, um)
    /\ input' = <<>>
    /\ isLoading' = TRUE
    /\ hpc' = "fetching"
    /\ UNCHANGED <<shown, assistantMessage, body, readPos, notChat>>

\* chat.tsx 59, 105-108: fetch rejects
FetchRejects ==
    /\ hpc = "fetching"
    /\ hpc' = "failed" /\ isLoading' = FALSE
    /\ UNCHANGED <<messages, input, shown, userMessage, assistantMessage, body,
                   readPos, notChat>>

\* chat.tsx 69-71, 105-108: the response is not ok
ResponseNotOk ==
    /\ hpc = "fetching"
    /\ hpc' = "notOk" /\ isLoading' = FALSE
    /\ UNCHANGED <<messages, input, shown, userMessage, assistantMessage, body,
                   readPos, notChat>>

\* chat.tsx 73-74, 107-108: the response has no body
NoReader ==
    /\ hpc = "fetching"
    /\ hpc' = "returned" /\ isLoading' = FALSE
    /\ UNCHANGED <<messages, input, shown, userMessage, assistantMessage, body,
                   readPos, notChat>>

\* chat.tsx 76-85: the empty assistant message is added
StartReading(now) ==
    /\ hpc = "fetching"
    /\ now >= userMessage[1].id[2]
    /\ LET am == TextMessage(NumToString(now + 1), "assistant", <<>>)
       IN  /\ assistantMessage' = <<am>>
           /\ messages' = Append(messages, am)
    /\ hpc' = "reading"
    /\ UNCHANGED <<input, isLoading, shown, userMessage, body, readPos, notChat>>

\* chat.tsx 88-103: one chunk is read, decoded and, unless it decodes to the
\* empty string, added to the assistant message, a copy of which replaces
\* the last message
ReadChunk ==
    /\ hpc = "reading"
    /\ readPos < Len(body)
    /\ readPos' = readPos + 1
    /\ LET chunk == Decode(body[readPos + 1])
           am    == [assistantMessage[1] EXCEPT
                        !.text = assistantMessage[1].text \o chunk]
       IN  IF chunk # <<>>
           THEN /\ assistantMessage' = <<am>>
                /\ messages' = ReplaceLast(messages, am)
           ELSE UNCHANGED <<assistantMessage, messages>>
    /\ UNCHANGED <<input, isLoading, hpc, shown, userMessage, body, notChat>>

\* chat.tsx 88-89, 107-108: the body has ended
ReadDone ==
    /\ hpc = "reading"
    /\ readPos = Len(body)
    /\ hpc' = "finished" /\ isLoading' = FALSE
    /\ UNCHANGED <<messages, input, shown, userMessage, assistantMessage, body,
                   readPos, notChat>>

\* chat.tsx 88, 105-108: reader.read() rejects
ReadRejects ==
    /\ hpc = "reading"
    /\ hpc' = "readFailed" /\ isLoading' = FALSE
    /\ UNCHANGED <<messages, input, shown, userMessage, assistantMessage, body,
                   readPos, notChat>>

ChatNext ==
    \/ SubmitBlank
    \/ \E now \in Clock : Submit(now)
    \/ FetchRejects
    \/ ResponseNotOk
    \/ NoReader
    \/ \E now \in Clock : StartReading(now)
    \/ ReadChunk
    \/ ReadDone
    \/ ReadRejects

SpecChat == ChatInit /\ [][ChatNext]_vars

----------------------------------------------------------------------------
(* Claims *)

Terminated == pc = "returned" \/ driver \in {"done", "error"}

\* C1: a request never makes more than maxSteps = 10 model invocations, also
\* when every model response requests tools, and its step loop terminates.
C1_AtMostTenModelInvocations ==
    /\ [](modelCalls <= 10)
    /\ <>Terminated

\* the tenth response still requested tools, all of which returned
C1_Witness ==
    /\ modelCalls = 10 /\ driver = "done"
    /\ Len(calls) = MaxCalls
    /\ \A i \in 1..Len(calls) : calls[i].state = "returned"

HasErrorResult(c) ==
    /\ c.payload # <<>>
    /\ c.tool = "scrapePages"
    /\ "error" \in DOMAIN c.payload[1]

\* C2: a tool executor that fails yields a tool result whose payload carries an
\* error field; the failure is not raised on the stream and the loop goes on
\* with the next model invocation.
C2_ToolFailureBecomesResult ==
    \A i \in 1..Len(calls) :
        calls[i].state = "threw" =>
            /\ HasErrorResult(calls[i])
            /\ CountType(stream, "error") = 0
            /\ driver # "done"

\* C3: once the request's cancellation signal has fired, no tool invocation of
\* the request keeps running un-cancelled.
C3_AbortReachesEveryInvocation ==
    aborted => \A i \in 1..Len(calls) : calls[i].state # "running"

\* C4 as claimed: every upsertChat call of a request is made after the driver
\* has reached Done.
C4_EveryUpsertAfterDone ==
    upserts # <<>> => driver = "done"

\* the calls made before the step loop starts (route.ts 51-57)
UpsertsBeforeLoop ==
    IF entry = "POST" /\ isNewChat /\ pc \in {"admitted", "streaming"} THEN 1 ELSE 0

\* C4 as amended: no upsertChat call is made while the step loop runs; a new
\* chat is saved once, with the request's messages, before the loop starts, and
\* every other call is made after the driver has reached Done.
C4_NoUpsertDuringLoop ==
    /\ driver \in {"idle", "model", "tools", "error"} =>
          /\ Len(upserts) = UpsertsBeforeLoop
          /\ \A k \in 1..Len(upserts) : upserts[k].messages = "request"
    /\ Len(upserts) > UpsertsBeforeLoop => driver = "done"
    /\ ~isNewChat /\ upserts # <<>> => driver = "done"

\* a new chat whose loop ran tools and then finished: saved before and after
C4_Witness ==
    /\ isNewChat /\ Len(upserts) = 2 /\ modelCalls >= 2 /\ driver = "done"
    /\ upserts[1].messages = "request"
    /\ upserts[2].messages = "request+response"

\* C5: when the model invocation fails, the response (status 200) carries
\* exactly one error chunk, the generic message, as its last chunk, and the
\* stream is then closed.
C5_OneErrorChunkThenClosed ==
    /\ [](entry = "POST" /\ driver = "error" =>
            /\ status = 200
            /\ CountType(stream, "error") = 1
            /\ stream[Len(stream)] = ErrorChunk("Oops, an error occurred!"))
    /\ ((entry = "POST" /\ driver = "error") ~> closed)

C5_Witness ==
    /\ entry = "POST" /\ driver = "error" /\ closed
    /\ modelCalls >= 2
    /\ CountType(stream, "text") >= 1

\* C6: when the model invocation fails, onFinish never runs and no upsertChat
\* call carrying the response messages is made.
C6_NoFinalUpsertAfterModelFailure ==
    driver = "error" =>
        /\ ~finished
        /\ \A k \in 1..Len(upserts) : upserts[k].messages # "request+response"

C6_Witness ==
    /\ entry = "POST" /\ driver = "error" /\ closed
    /\ isNewChat /\ Len(upserts) = 1 /\ modelCalls >= 2

NewChatCreated(id) ==
    [type |-> "data", value |-> [type |-> "NEW_CHAT_CREATED", chatId |-> id]]

\* C7: for a new chat the stream carries NEW_CHAT_CREATED with the request's
\* chatId exactly once, ahead of every text chunk; otherwise it never carries it.
C7_NewChatEventOnceAndFirst ==
    entry = "POST" =>
        IF isNewChat /\ pc = "streaming"
        THEN /\ CountType(stream, "data") = 1
             /\ \E i \in 1..Len(stream) :
                   /\ stream[i] = NewChatCreated(chatId)
                   /\ \A j \in 1..Len(stream) : stream[j].type = "text" => i < j
        ELSE CountType(stream, "data") = 0

C7_Witness ==
    /\ entry = "POST" /\ isNewChat /\ closed
    /\ CountType(stream, "text") >= 1

Out == output[1]

Failures == {i \in 1..Len(urls) : ~fetches[i][1].success}

\* C8: scrapePages returns one entry per input URL, in input order, whichever
\* fetches fail and in whatever order they settle.
C8_OneEntryPerUrlInOrder ==
    output # <<>> =>
        /\ Len(Out.results) = Len(urls)
        /\ \A i \in 1..Len(urls) : Out.results[i].url = urls[i]

\* three distinct positions settle out of order and the middle one fails
C8_Witness ==
    /\ output # <<>>
    /\ Len(urls) = 3 /\ settleOrder = <<3, 1, 2>>
    /\ urls[1] # urls[2]
    /\ Failures = {2}

\* C9: the output carries the top-level error field exactly when some entry of
\* results has success = false.
C9_ErrorIffSomeFailure ==
    output # <<>> =>
        ("error" \in DOMAIN Out <=>
            \E i \in 1..Len(Out.results) : ~Out.results[i].success)

C9_Witness ==
    /\ output # <<>>
    /\ Len(urls) >= 2
    /\ "error" \in DOMAIN Out
    /\ \E i \in 1..Len(Out.results) : Out.results[i].success

\* C10: when k of the N fetches fail, 0 < k < N, the batch is reported as not
\* successful and every URL keeps its own outcome: the extracted text where the
\* fetch succeeded, the error description where it failed.
C10_PartialFailureKeepsEveryOutcome ==
    (output # <<>> /\ Failures # {} /\ Failures # 1..Len(urls)) =>
        /\ "error" \in DOMAIN Out
        /\ Len(Out.results) = Len(urls)
        /\ \A i \in 1..Len(urls) :
              IF i \in Failures
              THEN /\ Out.results[i].success = FALSE
                   /\ Out.results[i].data = ErrorInfo(urls[i])
              ELSE /\ Out.results[i].success = TRUE
                   /\ Out.results[i].data = ExtractedText(urls[i])

C10_Witness ==
    /\ output # <<>>
    /\ Len(urls) = 3 /\ Cardinality(Failures) = 2

SearchOut == searchOutput[1]

\* C11: for a provider response with n organic results searchWeb returns n
\* results in the provider's order, title, link and snippet copied from the
\* i-th organic result, and no field beyond title, link, snippet and date.
C11_SearchResultsNormalized ==
    searchOutput # <<>> =>
        /\ Len(SearchOut) = Len(serperOrganic)
        /\ \A i \in 1..Len(serperOrganic) :
              /\ DOMAIN SearchOut[i] \subseteq {"title", "link", "snippet", "date"}
              /\ SearchOut[i].title = serperOrganic[i].title
              /\ SearchOut[i].link = serperOrganic[i].link
              /\ SearchOut[i].snippet = serperOrganic[i].snippet
              /\ "date" \in DOMAIN SearchOut[i] =>
                    SearchOut[i].date = Field(serperOrganic[i], "date")

\* two different results, the first dated and with provider fields
C11_Witness ==
    /\ searchOutput # <<>> /\ route = "day3"
    /\ Len(serperOrganic) = 2
    /\ "sitelinks" \in DOMAIN serperOrganic[1]
    /\ "date" \notin DOMAIN serperOrganic[2]
    /\ serperOrganic[1].title # serperOrganic[2].title
    /\ serperOrganic[1].link # serperOrganic[2].link

\* the chat named by an existing-chat request is missing or another user's
ChatNotOwned == ~isNewChat /\ (storedChat = "none" \/ storedChat # session)

\* C12: in the day-3 route a request with no session is answered 401, one with
\* no messages 400, one naming a missing or foreign chat 404, and for none of
\* them is the model invoked, upsertChat called or anything written to a stream.
C12_OnlyAdmittedRequestsRun ==
    entry = "POST" =>
        /\ (pc # "start" /\ session = "none") => status = 401
        /\ (pc # "start" /\ session # "none" /\ ~hasMessages) => status = 400
        /\ (pc # "start" /\ session # "none" /\ hasMessages /\ ChatNotOwned) =>
              status = 404
        /\ (session = "none" \/ ~hasMessages \/ ChatNotOwned) =>
              /\ modelCalls = 0 /\ driver = "idle"
              /\ upserts = <<>>
              /\ stream = <<>> /\ ~closed

\* an authenticated request with messages for another user's chat was refused
C12_Witness ==
    /\ entry = "POST" /\ pc = "returned" /\ status = 404
    /\ session = "alice" /\ hasMessages /\ storedChat = "bob"

\* the first n chunks read from the body, joined in arrival order
RECURSIVE ReceivedBytes(_)
ReceivedBytes(n) == IF n = 0 THEN <<>> ELSE ReceivedBytes(n - 1) \o body[n]

\* the first n chunks read from the body, each decoded on its own, joined
RECURSIVE DecodedApart(_)
DecodedApart(n) == IF n = 0 THEN <<>> ELSE DecodedApart(n - 1) \o Decode(body[n])

\* while the body is read and after it has ended, the last message is the
\* assistant message of this submission, the submitted user message is right
\* before it and the earlier messages are as they were
OnlyLastMessageReplaced ==
    hpc \in {"reading", "finished"} =>
        LET n == Len(messages)
        IN  /\ n = Len(shown) + 2
            /\ messages[n] = assistantMessage[1]
            /\ messages[n].role = "assistant"
            /\ messages[n].text = DecodedApart(readPos)
            /\ messages[n - 1] = userMessage[1]
            /\ messages[n - 1].role = "user"
            /\ \A k \in 1..Len(shown) : messages[k] = shown[k]

\* C13: in handleSubmit, for every non-empty input and every sequence of
\* chunks read from the response body, each chunk update replaces only the
\* assistant message of this submission: after the stream ends the last
\* message is that assistant message and its text is the concatenation of
\* all the received chunks in arrival order, the submitted user message is
\* right before it and every earlier message is unchanged.
C13_TextIsAllChunksInOrder ==
    /\ OnlyLastMessageReplaced
    /\ hpc = "finished" =>
          /\ readPos = Len(body)
          /\ messages[Len(messages)].text = Decode(ReceivedBytes(Len(body)))

====
